---------------------------- MODULE Spec2Model ----------------------------
(***************************************************************************)
(* Model of sotopia's tick-driven LLM agent (experimental/agents/          *)
(* llm_agent.py) and of the structured-generation pipeline it calls        *)
(* (generation_utils/generate.py).                                         *)
(*                                                                         *)
(* Texts.  A Python str that is only compared or copied is a TLA+ string.  *)
(* A str that the code edits character by character (the values of the     *)
(* decision object's `args`) is a sequence of one-character strings.  The  *)
(* text a provider returns is a sequence of pieces: the wrapper pieces     *)
(* (a code fence, the word json, a double quote, white space, any other    *)
(* word) and the JSON documents, whose string values are character         *)
(* sequences.  str.replace acts on the wrapper pieces and inside the       *)
(* values; an occurrence of the pattern that only arises across two        *)
(* pieces is outside the model.  The back quote is written ' here (a TLA+  *)
(* string cannot hold a back quote), so the code fence is "'''".              *)
(*                                                                         *)
(* Template construction.  aact builds its prompt with                     *)
(* self.get_action_template(...) and self._format_message_history(...)     *)
(* (llm_agent.py 236-245) and passes temperature=0.7 to agenerate.  Both   *)
(* helpers are declared without a self parameter (lines 76 and 83) and     *)
(* agenerate of generate.py takes no temperature, so the calls as written  *)
(* raise TypeError before any provider is invoked.  The model describes    *)
(* the decision cycle behind these calls: it takes them to deliver the     *)
(* template with the placeholders agent_name, message_history and goal     *)
(* that the body of get_action_template writes (lines 93-96), and an       *)
(* agenerate that accepts the call.                                        *)
(***************************************************************************)
EXTENDS Integers, Sequences, FiniteSets, TLC

VARIABLES
    count_ticks,      \* LLMAgent.count_ticks
    message_history,  \* LLMAgent.message_history
    query_interval,   \* LLMAgent.query_interval
    model_name,       \* LLMAgent.model_name
    agent_pc,         \* "Idle", or "Deciding" while aact is suspended in agenerate
    gen,              \* the frame of the generate/agenerate call in progress
    provider_calls,   \* provider invocations made by the current/last pipeline call
    provider_outputs, \* the texts those invocations have returned so far
    input_values,     \* the dict the caller passed as input_values
    last,             \* what handling the last event (or call) produced
    sent,             \* what send published while handling the last event
    events,           \* number of events or calls handled so far
    heap              \* several LLMAgent instances and the list objects they refer to

vars == <<count_ticks, message_history, query_interval, model_name, agent_pc,
          gen, provider_calls, provider_outputs, input_values, last, sent, events,
          heap>>

-----------------------------------------------------------------------------
(* Bounds of the model *)

MaxEvents == 3
MaxInterval == 3
MaxCalls == 2

-----------------------------------------------------------------------------
(* Character-level strings *)

Chars(s) ==
    CASE s = "" -> << >>
      [] s = "hi" -> <<"h", "i">>
      [] s = "Nan" -> <<"N", "a", "n">>
      [] s = "/a" -> <<"/", "a">>
      [] s = "json!" -> <<"j", "s", "o", "n", "!">>
      [] s = "'''" -> <<"'", "'", "'">>
      [] s = "json" -> <<"j", "s", "o", "n">>

RECURSIVE Replace(_, _)
Replace(s, old) ==
    IF Len(s) < Len(old) THEN s
    ELSE IF SubSeq(s, 1, Len(old)) = old
         THEN Replace(SubSeq(s, Len(old) + 1, Len(s)), old)
         ELSE <<Head(s)>> \o Replace(Tail(s), old)

-----------------------------------------------------------------------------
(* JSON documents and provider texts *)

ArgKeys == {"content", "url", "command", "path"}

Field(v) == [has |-> TRUE, v |-> v]
NoField == [has |-> FALSE, v |-> << >>]

\* args as a JSON object holding exactly the keys of `given`
ArgMap(given) ==
    [shape |-> "map",
     f |-> [k \in ArgKeys |-> IF k \in DOMAIN given THEN Field(given[k]) ELSE NoField]]
\* "args" absent from the object, and "args" present but not an object
ArgsAbsent == [shape |-> "absent", f |-> [k \in ArgKeys |-> NoField]]
ArgsScalar == [shape |-> "scalar", f |-> [k \in ArgKeys |-> NoField]]

Obj(action, args) == [j |-> "object", has_action |-> TRUE, action |-> action, args |-> args]
ObjNoAction == [j |-> "object", has_action |-> FALSE, action |-> "", args |-> ArgMap(<< >>)]
JArray == [j |-> "array", has_action |-> FALSE, action |-> "", args |-> ArgsAbsent]
JNumber == [j |-> "number", has_action |-> FALSE, action |-> "", args |-> ArgsAbsent]
NoDoc == [j |-> "", has_action |-> FALSE, action |-> "", args |-> ArgsAbsent]

Values == {Chars("hi"), Chars("json!")}
Paths == {Chars("/a")}

One(k, v) == [x \in {k} |-> v]
Two(k1, v1, k2, v2) == [x \in {k1, k2} |-> IF x = k1 THEN v1 ELSE v2]

WellFormedDocs ==
    {Obj("speak", ArgMap(One("content", v))) : v \in Values}
    \cup {Obj("thought", ArgMap(One("content", Chars("hi"))))}
    \cup {Obj("browse", ArgMap(One("url", p))) : p \in Paths}
    \cup {Obj(a, ArgMap(One("command", Chars("hi")))) : a \in {"browse_action", "run"}}
    \cup {Obj("write", ArgMap(Two("path", p, "content", v))) : p \in Paths, v \in Values}
    \cup {Obj("read", ArgMap(One("path", p))) : p \in Paths}
    \cup {Obj("none", ArgMap(<< >>)), Obj("none", ArgsAbsent)}
    \cup {Obj("leave", ArgMap(<< >>))}

DeficientDocs ==
    {Obj(a, ArgMap(<< >>)) :
        a \in {"thought", "speak", "browse", "browse_action", "run", "write", "read"}}
    \cup {Obj("write", ArgMap(One("path", p))) : p \in Paths}
    \cup {Obj("write", ArgMap(One("content", Chars("hi"))))}
    \cup {Obj("speak", ArgsAbsent), Obj("read", ArgsScalar)}
    \cup {Obj("dance", ArgMap(<< >>))}
    \cup {ObjNoAction, JArray, JNumber}

Docs == WellFormedDocs \cup DeficientDocs

Piece(t) == [t |-> t, d |-> NoDoc]
DocPiece(d) == [t |-> "doc", d |-> d]

\* the shapes in which a provider returns a document
Wrappings(d) ==
    { <<DocPiece(d)>>,
      <<Piece("fence"), Piece("json"), Piece("ws"), DocPiece(d), Piece("ws"), Piece("fence")>>,
      <<Piece("quote"), DocPiece(d), Piece("quote")>>,
      <<Piece("ws"), DocPiece(d), Piece("ws")>> }

\* texts that are no JSON document, before or after the sanitization
Malformed ==
    { <<Piece("word"), Piece("ws"), Piece("word")>>,
      << >>,
      <<Piece("word"), DocPiece(Obj("none", ArgMap(<< >>)))>>,
      <<Piece("ws"), Piece("quote"), DocPiece(Obj("speak", ArgMap(One("content", Chars("hi"))))),
        Piece("quote")>> }

ProviderTexts == UNION {Wrappings(d) : d \in Docs} \cup Malformed

-----------------------------------------------------------------------------
(* llm_agent.py 253-258: the sanitization of the decision text *)

ReplaceDoc(d, old) ==
    [d EXCEPT !.args.f =
        [k \in ArgKeys |-> [has |-> d.args.f[k].has, v |-> Replace(d.args.f[k].v, Chars(old))]]]

\* str.replace(old, ""): the wrapper pieces that are `old` go, and so does every
\* occurrence of `old` inside the values of a document
ReplaceText(text, old) ==
    LET tag == IF old = "'''" THEN "fence" ELSE old
        keep == SelectSeq(text, LAMBDA p : p.t # tag)
    IN [i \in 1..Len(keep) |->
            IF keep[i].t = "doc" THEN DocPiece(ReplaceDoc(keep[i].d, old)) ELSE keep[i]]

RECURSIVE LStrip(_, _)
LStrip(text, tags) ==
    IF text # << >> /\ Head(text).t \in tags THEN LStrip(Tail(text), tags) ELSE text

RECURSIVE RStrip(_, _)
RStrip(text, tags) ==
    IF text # << >> /\ text[Len(text)].t \in tags
    THEN RStrip(SubSeq(text, 1, Len(text) - 1), tags)
    ELSE text

\* str.strip(chars)
Strip(text, tags) == RStrip(LStrip(text, tags), tags)

\* a variant of the sanitization without the .strip('"')
SanitizeKeepsQuotes(agent_action) ==
    Strip(ReplaceText(ReplaceText(agent_action, "'''"), "json"), {"ws"})

Sanitize(agent_action) ==
    Strip(Strip(ReplaceText(ReplaceText(agent_action, "'''"), "json"), {"quote"}), {"ws"})

\* json.loads: the text decodes iff it is one JSON document
LoadsOK(text) == Len(text) = 1 /\ text[1].t = "doc"
Loads(text) == text[1].d

-----------------------------------------------------------------------------
(* generate.py: output parsers *)

None == [some |-> FALSE, v |-> 0, lo |-> 0, hi |-> 0]
SomeInt(n) == [some |-> TRUE, v |-> n, lo |-> 0, hi |-> 0]
SomeRange(lo, hi) == [some |-> TRUE, v |-> 0, lo |-> lo, hi |-> hi]

StrOutputParser == [type |-> "str", number_of_int |-> None, range_of_int |-> None]
ListOfIntOutputParser(number_of_int, range_of_int) ==
    [type |-> "list[int]", number_of_int |-> number_of_int, range_of_int |-> range_of_int]

\* a text made of space-separated tokens: integers and other words
IntTok(n) == [t |-> "int", n |-> n]
WordTok == [t |-> "word", n |-> 0]

\* Python truthiness of number_of_int (None and 0 are falsy)
Truthy(opt) == opt.some /\ opt.v # 0

ListOfIntDescription(parser) ==
    "a list of"
    \o (IF Truthy(parser.number_of_int) THEN " " \o ToString(parser.number_of_int.v) ELSE "")
    \o " intergers"
    \o (IF parser.range_of_int.some
        THEN " within the range of(" \o ToString(parser.range_of_int.lo) \o ", "
             \o ToString(parser.range_of_int.hi) \o ")"
        ELSE "")
    \o " separated by space"

\* PydanticOutputParser(pydantic_object=AgentAction), as generate_action uses it
\* (line 399): a text parses iff it is one JSON object of the AgentAction schema
PydanticOutputParser ==
    [type |-> "pydantic", number_of_int |-> None, range_of_int |-> None]
ActionJSON(action_type, argument) ==
    [t |-> "action_json", action_type |-> action_type, argument |-> argument]
PydanticParseOK(output) == Len(output) = 1 /\ output[1].t = "action_json"
PydanticResult(output) ==
    [agent_name |-> "", action_type |-> output[1].action_type,
     argument |-> output[1].argument, path |-> << >>]

get_format_instructions(parser) ==
    CASE parser.type = "str" -> "Please output a string"
      [] parser.type = "pydantic" -> "<the JSON schema of AgentAction>"
      [] OTHER -> "Please output " \o ListOfIntDescription(parser)

ListOfIntResult(output) == [i \in 1..Len(output) |-> output[i].n]

ListOfIntParseOK(parser, output) ==
    /\ \A i \in 1..Len(output) : output[i].t = "int"
    /\ ~(Truthy(parser.number_of_int) /\ Len(output) # parser.number_of_int.v)
    /\ parser.range_of_int.some =>
           \A i \in 1..Len(output) :
               ~(output[i].n < parser.range_of_int.lo \/ output[i].n > parser.range_of_int.hi)

\* a variant in which the string parser accepts nothing but a bare JSON document
ParseOKStrict(parser, output) ==
    IF parser.type = "str" THEN LoadsOK(output) ELSE ListOfIntParseOK(parser, output)

\* parse: whether it returns, and what
ParseOK(parser, output) ==
    CASE parser.type = "str" -> TRUE
      [] parser.type = "pydantic" -> PydanticParseOK(output)
      [] OTHER -> ListOfIntParseOK(parser, output)

Parse(parser, output) ==
    CASE parser.type = "str" -> output
      [] parser.type = "pydantic" -> PydanticResult(output)
      [] OTHER -> ListOfIntResult(output)

-----------------------------------------------------------------------------
(* generate.py: the pipeline *)

LLM_Name == {"gpt-3.5-turbo", "text-davinci-003", "gpt-4", "human"}

\* a variant of obtain_chain whose default case falls back to the chat model
obtain_chain_fallback(name) == TRUE

\* obtain_chain returns a chain (TRUE) or raises ValueError (FALSE)
obtain_chain(name) == name \in {"gpt-3.5-turbo", "gpt-4", "text-davinci-003"}

\* a variant of the assert that lets a template use fewer names than it is given
TemplateMatchesSubset(input_variables, keys) ==
    input_variables \subseteq keys \cup {"format_instructions"}

\* the assert of generate/agenerate over the template's placeholders
TemplateMatches(input_variables, keys) ==
    \/ input_variables = keys \cup {"format_instructions"}
    \/ input_variables = keys

\* input_values after `if "format_instructions" not in input_values: ...`
WithFormatInstructions(values, parser) ==
    IF "format_instructions" \in DOMAIN values THEN values
    ELSE [k \in DOMAIN values \cup {"format_instructions"} |->
             IF k = "format_instructions" THEN get_format_instructions(parser) ELSE values[k]]

\* one provider invocation: the chain's model, its template and its inputs
Invocation(name, template, inputs) ==
    [model_name |-> name, template |-> template, inputs |-> inputs]

\* a variant of format_bad_output that always sends the string parser's instructions
format_bad_output_fixed_instructions(ill_formed_output, format_instructions) ==
    [model_name |-> "gpt-3.5-turbo", template |-> "reformat",
     inputs |-> [k \in {"ill_formed_output", "format_instructions"} |->
                    IF k = "ill_formed_output" THEN ill_formed_output
                    ELSE "Please output a string"]]

\* format_bad_output: the chain it obtains and the inputs it predicts with
ReformatModel == "gpt-3.5-turbo"
format_bad_output(ill_formed_output, format_instructions) ==
    Invocation(ReformatModel, "reformat",
               [k \in {"ill_formed_output", "format_instructions"} |->
                   IF k = "ill_formed_output" THEN ill_formed_output ELSE format_instructions])

NoFrame ==
    [pc |-> "idle", caller |-> "", name |-> "", parser |-> StrOutputParser, result |-> << >>]

\* a variant of generate/agenerate that checks the template only after the
\* provider has been invoked
GenerateEntryValidatesLate(caller, name, input_variables, values, parser) ==
    IF ~obtain_chain(name)
    THEN [status |-> "raised", error |-> "ValueError", values |-> values,
          calls |-> << >>, frame |-> NoFrame]
    ELSE IF ~TemplateMatches(input_variables, DOMAIN values)
    THEN [status |-> "raised", error |-> "AssertionError", values |-> values,
          calls |-> <<Invocation(name, "caller", values)>>, frame |-> NoFrame]
    ELSE LET injected == WithFormatInstructions(values, parser)
         IN [status |-> "pending", error |-> "", values |-> injected,
             calls |-> <<Invocation(name, "caller", injected)>>,
             frame |-> [pc |-> "first", caller |-> caller, name |-> name,
                        parser |-> parser, result |-> << >>]]

\* generate from entry to chain.predict (lines 217-234)
\* [status, error, values, calls, frame]
generate_begin(caller, name, input_variables, values, parser) ==
    IF ~TemplateMatches(input_variables, DOMAIN values)
    THEN [status |-> "raised", error |-> "AssertionError", values |-> values,
          calls |-> << >>, frame |-> NoFrame]
    ELSE IF ~obtain_chain(name)
    THEN [status |-> "raised", error |-> "ValueError", values |-> values,
          calls |-> << >>, frame |-> NoFrame]
    ELSE LET injected == WithFormatInstructions(values, parser)
         IN [status |-> "pending", error |-> "", values |-> injected,
             calls |-> <<Invocation(name, "caller", injected)>>,
             frame |-> [pc |-> "first", caller |-> caller, name |-> name,
                        parser |-> parser, result |-> << >>]]

\* agenerate from entry to the await of chain.apredict (lines 259-276)
agenerate_begin(caller, name, input_variables, values, parser) ==
    IF ~TemplateMatches(input_variables, DOMAIN values)
    THEN [status |-> "raised", error |-> "AssertionError", values |-> values,
          calls |-> << >>, frame |-> NoFrame]
    ELSE IF ~obtain_chain(name)
    THEN [status |-> "raised", error |-> "ValueError", values |-> values,
          calls |-> << >>, frame |-> NoFrame]
    ELSE LET injected == WithFormatInstructions(values, parser)
         IN [status |-> "pending", error |-> "", values |-> injected,
             calls |-> <<Invocation(name, "caller", injected)>>,
             frame |-> [pc |-> "first", caller |-> caller, name |-> name,
                        parser |-> parser, result |-> << >>]]

\* generate/agenerate from entry to the first provider invocation; the agent's
\* caller is aact, which awaits agenerate
GenerateEntry(caller, name, input_variables, values, parser) ==
    IF caller = "generate"
    THEN generate_begin(caller, name, input_variables, values, parser)
    ELSE agenerate_begin(caller, name, input_variables, values, parser)

\* a variant of GenerateResume that asks for a reformat again whenever a parse fails
GenerateResumeRetries(frame, calls, text) ==
    IF ParseOK(frame.parser, text)
    THEN [status |-> "returned", error |-> "", value |-> Parse(frame.parser, text),
          calls |-> calls, frame |-> [frame EXCEPT !.pc = "idle"]]
    ELSE [status |-> "pending", error |-> "", value |-> << >>,
          calls |-> Append(calls,
                       [model_name |-> "gpt-3.5-turbo", template |-> "reformat",
                        inputs |-> << >>]),
          frame |-> [frame EXCEPT !.pc = "reformat", !.result = text]]

\* generate once a provider invocation has returned `text` (lines 234-249)
\* [status, error, value, calls, frame]
generate_resume(frame, calls, text) ==
    IF ParseOK(frame.parser, text)
    THEN [status |-> "returned", error |-> "", value |-> Parse(frame.parser, text),
          calls |-> calls, frame |-> NoFrame]
    ELSE IF frame.pc = "first"
    THEN [status |-> "pending", error |-> "", value |-> << >>,
          calls |-> Append(calls,
                       format_bad_output(text, get_format_instructions(frame.parser))),
          frame |-> [frame EXCEPT !.pc = "reformat", !.result = text]]
    ELSE [status |-> "raised", error |-> "OutputParserException", value |-> << >>,
          calls |-> calls, frame |-> NoFrame]

\* a variant of agenerate whose except clause passes the parse error on
agenerate_resume_no_reformat(frame, calls, text) ==
    IF ParseOK(frame.parser, text)
    THEN [status |-> "returned", error |-> "", value |-> Parse(frame.parser, text),
          calls |-> calls, frame |-> NoFrame]
    ELSE [status |-> "raised", error |-> "OutputParserException", value |-> << >>,
          calls |-> calls, frame |-> NoFrame]

\* a variant of agenerate that has every answer reformatted, and the reformatted
\* answer once more, before it parses
agenerate_resume_reformats_twice(frame, calls, text) ==
    IF frame.pc \in {"first", "reformat"}
    THEN [status |-> "pending", error |-> "", value |-> << >>,
          calls |-> Append(calls,
                       format_bad_output(text, get_format_instructions(frame.parser))),
          frame |-> [frame EXCEPT !.pc = IF frame.pc = "first" THEN "reformat" ELSE "again",
                                  !.result = text]]
    ELSE IF ParseOK(frame.parser, text)
    THEN [status |-> "returned", error |-> "", value |-> Parse(frame.parser, text),
          calls |-> calls, frame |-> NoFrame]
    ELSE [status |-> "raised", error |-> "OutputParserException", value |-> << >>,
          calls |-> calls, frame |-> NoFrame]

\* agenerate once an awaited provider invocation has returned `text` (lines 276-289)
agenerate_resume(frame, calls, text) ==
    IF ParseOK(frame.parser, text)
    THEN [status |-> "returned", error |-> "", value |-> Parse(frame.parser, text),
          calls |-> calls, frame |-> NoFrame]
    ELSE IF frame.pc = "first"
    THEN [status |-> "pending", error |-> "", value |-> << >>,
          calls |-> Append(calls,
                       format_bad_output(text, get_format_instructions(frame.parser))),
          frame |-> [frame EXCEPT !.pc = "reformat", !.result = text]]
    ELSE [status |-> "raised", error |-> "OutputParserException", value |-> << >>,
          calls |-> calls, frame |-> NoFrame]

\* generate/agenerate once a provider invocation has returned `text`
GenerateResume(frame, calls, text) ==
    IF frame.caller = "generate"
    THEN generate_resume(frame, calls, text)
    ELSE agenerate_resume(frame, calls, text)

-----------------------------------------------------------------------------
(* llm_agent.py: the agent *)

AgentName == "Ava"
Goal == "negotiate price"
OutputChannel == "Ava:out"
PeerNames == {"Bob"}
\* the model names the agents of the model are configured with
AgentModels == {"gpt-4", "human"}

ActionTypes ==
    {"none", "speak", "thought", "browse", "browse_action", "read", "write", "run", "leave"}

AgentAction(agent_name, action_type, argument, path) ==
    [agent_name |-> agent_name, action_type |-> action_type,
     argument |-> argument, path |-> path]
NoAction == AgentAction("", "", << >>, << >>)

NoneAction(nm) == AgentAction(nm, "none", Chars(""), Chars(""))

\* a variant of send that also publishes thoughts to the peers
send_publishes_thought(message) ==
    IF message.action_type \in {"speak", "thought"}
    THEN <<[channel |-> "Ava:out", data |-> message]>>
    ELSE IF message.action_type \in {"browse", "browse_action", "write", "read", "run"}
    THEN <<[channel |-> "Agent:Runtime", data |-> message]>>
    ELSE << >>

\* LLMAgent.send: the publications it makes, in order
send(message) ==
    IF message.action_type = "speak"
    THEN <<[channel |-> OutputChannel, data |-> message]>>
    ELSE IF message.action_type \in {"browse", "browse_action", "write", "read", "run"}
    THEN <<[channel |-> "Agent:Runtime", data |-> message]>>
    ELSE << >>

\* what aact hands back: an AgentAction, None, or an exception
Returned(action, hist) ==
    [status |-> "action", action |-> action, error |-> "", logged |-> "", history |-> hist]
ReturnedNone(logged, hist) ==
    [status |-> "no_action", action |-> NoAction, error |-> "", logged |-> logged,
     history |-> hist]
Raised(error, hist) ==
    [status |-> "raised", action |-> NoAction, error |-> error, logged |-> "",
     history |-> hist]

\* data["args"][key]: the value, or the exception the subscript raises
Arg(data, key) ==
    IF data.args.shape = "absent" THEN [err |-> "KeyError", v |-> << >>]
    ELSE IF data.args.shape # "map" THEN [err |-> "TypeError", v |-> << >>]
    ELSE IF ~data.args.f[key].has THEN [err |-> "KeyError", v |-> << >>]
    ELSE [err |-> "", v |-> data.args.f[key].v]

\* the branches of aact's if/elif chain (lines 266-345)
ThoughtBranch(data, nm, hist) ==
    LET content == Arg(data, "content")
    IN IF content.err # "" THEN Raised(content.err, hist)
       ELSE Returned(AgentAction(nm, "thought", content.v, Chars("")),
                     Append(hist, <<nm, data.action, content.v>>))

\* a variant of the speak branch that puts the new entry first (insert(0, ...))
SpeakBranchPrepends(data, nm, hist) ==
    LET content == Arg(data, "content")
    IN IF content.err # "" THEN Raised(content.err, hist)
       ELSE Returned(AgentAction(nm, "speak", content.v, Chars("")),
                     <<<<nm, data.action, content.v>>>> \o hist)

SpeakBranch(data, nm, hist) ==
    LET content == Arg(data, "content")
    IN IF content.err # "" THEN Raised(content.err, hist)
       ELSE Returned(AgentAction(nm, "speak", content.v, Chars("")),
                     Append(hist, <<nm, data.action, content.v>>))

BrowseBranch(data, nm, hist) ==
    LET url == Arg(data, "url")
    IN IF url.err # "" THEN Raised(url.err, hist)
       ELSE Returned(AgentAction(nm, data.action, url.v, Chars("")),
                     Append(hist, <<nm, data.action, url.v>>))

\* browse_action and run
CommandBranch(data, nm, hist) ==
    LET command == Arg(data, "command")
    IN IF command.err # "" THEN Raised(command.err, hist)
       ELSE Returned(AgentAction(nm, data.action, command.v, Chars("")),
                     Append(hist, <<nm, data.action, command.v>>))

\* a variant of the write branch that records the path, as the read branch does
WriteBranchRecordsPath(data, nm, hist) ==
    LET path == Arg(data, "path")
        content == Arg(data, "content")
    IN IF path.err # "" THEN Raised(path.err, hist)
       ELSE IF content.err # "" THEN Raised(content.err, hist)
       ELSE Returned(AgentAction(nm, data.action, content.v, path.v),
                     Append(hist, <<nm, data.action, path.v>>))

\* a variant of the write branch that records the path before it reads the content
WriteBranchAppendsEarly(data, nm, hist) ==
    LET path == Arg(data, "path")
        content == Arg(data, "content")
    IN IF path.err # "" THEN Raised(path.err, hist)
       ELSE IF content.err # "" THEN Raised(content.err, Append(hist, <<nm, data.action, path.v>>))
       ELSE Returned(AgentAction(nm, data.action, content.v, path.v),
                     Append(hist, <<nm, data.action, content.v>>))

WriteBranch(data, nm, hist) ==
    LET path == Arg(data, "path")
        content == Arg(data, "content")
    IN IF path.err # "" THEN Raised(path.err, hist)
       ELSE IF content.err # "" THEN Raised(content.err, hist)
       ELSE Returned(AgentAction(nm, data.action, content.v, path.v),
                     Append(hist, <<nm, data.action, content.v>>))

\* a variant of the read branch that hands the path on as the argument
ReadBranchArgumentIsPath(data, nm, hist) ==
    LET path == Arg(data, "path")
    IN IF path.err # "" THEN Raised(path.err, hist)
       ELSE Returned(AgentAction(nm, data.action, path.v, path.v),
                     Append(hist, <<nm, data.action, path.v>>))

ReadBranch(data, nm, hist) ==
    LET path == Arg(data, "path")
    IN IF path.err # "" THEN Raised(path.err, hist)
       ELSE Returned(AgentAction(nm, data.action, Chars("Nan"), path.v),
                     Append(hist, <<nm, data.action, path.v>>))

NoneBranch(data, nm, hist) == Returned(NoneAction(nm), hist)

\* the else branch: print(f"Unknown action: {action}"), then aact falls off its end
ElseBranch(data, nm, hist) == ReturnedNone("Unknown action", hist)

\* a variant of the except clause that lets the decode error escape
DecodeErrorEscapes(nm, hist) == Raised("JSONDecodeError", hist)

\* except json.JSONDecodeError: print(...), then aact falls off its end
DecodeErrorBranch(nm, hist) == ReturnedNone("Error decoding JSON", hist)

\* a variant of the try block that records the decoded decision in the history
\* before it looks at it
ClassifyRecordsFirst(text, nm, hist) ==
    IF ~LoadsOK(text) THEN DecodeErrorBranch(nm, hist)
    ELSE LET data == Loads(text)
             recorded == Append(hist, <<nm, "decision", text>>)
         IN IF data.j # "object" THEN Raised("TypeError", recorded)
            ELSE IF ~data.has_action THEN Raised("KeyError", recorded)
            ELSE CASE data.action = "thought" -> ThoughtBranch(data, nm, recorded)
                   [] data.action = "speak" -> SpeakBranch(data, nm, recorded)
                   [] data.action = "browse" -> BrowseBranch(data, nm, recorded)
                   [] data.action = "browse_action" -> CommandBranch(data, nm, recorded)
                   [] data.action = "run" -> CommandBranch(data, nm, recorded)
                   [] data.action = "write" -> WriteBranch(data, nm, recorded)
                   [] data.action = "read" -> ReadBranch(data, nm, recorded)
                   [] data.action = "none" -> NoneBranch(data, nm, recorded)
                   [] OTHER -> ElseBranch(data, nm, recorded)

\* the try block of aact (lines 260-347) on the sanitized text
Classify(text, nm, hist) ==
    IF ~LoadsOK(text) THEN DecodeErrorBranch(nm, hist)
    ELSE LET data == Loads(text)
         IN IF data.j # "object" THEN Raised("TypeError", hist)
            ELSE IF ~data.has_action THEN Raised("KeyError", hist)
            ELSE CASE data.action = "thought" -> ThoughtBranch(data, nm, hist)
                   [] data.action = "speak" -> SpeakBranch(data, nm, hist)
                   [] data.action = "browse" -> BrowseBranch(data, nm, hist)
                   [] data.action = "browse_action" -> CommandBranch(data, nm, hist)
                   [] data.action = "run" -> CommandBranch(data, nm, hist)
                   [] data.action = "write" -> WriteBranch(data, nm, hist)
                   [] data.action = "read" -> ReadBranch(data, nm, hist)
                   [] data.action = "none" -> NoneBranch(data, nm, hist)
                   [] OTHER -> ElseBranch(data, nm, hist)

\* aact after agenerate has returned (lines 253-347)
Decide(agent_action, nm, hist) == Classify(Sanitize(agent_action), nm, hist)

\* the placeholders of the decision template and the inputs aact passes (lines 93-96, 242-248)
DecisionPlaceholders == {"agent_name", "message_history", "goal"}
DecisionInputs(nm, goal) ==
    [k \in {"message_history", "goal", "agent_name"} |->
        CASE k = "message_history" -> "<formatted history>"
          [] k = "goal" -> goal
          [] k = "agent_name" -> nm]

\* a variant of the cadence test that counts the ticks from zero
OnCadenceFromZero(ticks, interval) == (ticks - 1) % interval = 0

\* the cadence test of line 235
OnCadence(ticks, interval) == ticks % interval = 0

\* the node runtime publishes what aact returned through send, and nothing for None
Deliver(outcome) == IF outcome.status = "action" THEN send(outcome.action) ELSE << >>

-----------------------------------------------------------------------------
(* The agent's event loop *)

ObservationTexts == {Chars("hi")}
PeerActions ==
    {AgentAction(p, k, Chars("hi"), Chars("")) : p \in PeerNames, k \in {"speak", "thought", "leave"}}

NoCall ==
    [name |-> "", input_variables |-> {}, keys |-> {}, parser |-> StrOutputParser,
     values |-> << >>]

Outcome(event, cycle, o, decision) ==
    [event |-> event, cycle |-> cycle, status |-> o.status, action |-> o.action,
     error |-> o.error, logged |-> o.logged, decision |-> decision,
     call |-> NoCall, value |-> << >>, inbound |-> NoAction, agent |-> ""]

\* no instance but the one of the variables above
NoHeap == [agents |-> << >>, lists |-> << >>, tasks |-> << >>]

\* the message aact was called with: an AgentAction as it is, Text(text) by its text
TextMessage(text) == AgentAction("", "", text, << >>)

\* a runtime that hands aact the next event whether or not a call is suspended
RuntimeDeliversAnytime == TRUE

\* the node runtime hands aact one event at a time: none while a call of aact is
\* suspended in agenerate
RuntimeDelivers == agent_pc = "Idle"

\* the node runtime after a call of aact has ended, by a return or by an exception:
\* it waits for the next event
AfterAact(status) == "Idle"

Init ==
    /\ count_ticks = 0
    /\ message_history = << >>
    /\ query_interval \in 1..MaxInterval
    /\ model_name \in AgentModels
    /\ agent_pc = "Idle"
    /\ gen = NoFrame
    /\ provider_calls = << >>
    /\ provider_outputs = << >>
    /\ input_values = << >>
    /\ last = Outcome("", FALSE, ReturnedNone("", << >>), << >>)
    /\ sent = << >>
    /\ events = 0
    /\ heap = NoHeap

\* a variant of the Text case that records the observation as the agent's speech
TextCaseAsSpeech(text, nm, hist) ==
    Returned(NoneAction(nm), Append(hist, <<nm, "speak", text>>))

\* case Text(text=text) (lines 228-232)
TextCase(text, nm, hist) ==
    Returned(NoneAction(nm), Append(hist, <<nm, "observation data", text>>))

\* a variant of the AgentAction case that records every peer action
AgentActionCaseRecordsAll(message, nm, hist) ==
    Returned(NoneAction(nm),
             Append(hist, <<message.agent_name, message.action_type, message.argument>>))

\* case AgentAction(agent_name=..., action_type=..., argument=text) (lines 352-359)
AgentActionCase(message, nm, hist) ==
    Returned(NoneAction(nm),
             IF message.action_type = "speak"
             THEN Append(hist, <<message.agent_name, message.action_type, message.argument>>)
             ELSE hist)

HandleText(text) ==
    /\ RuntimeDelivers
    /\ events < MaxEvents
    /\ events' = events + 1
    /\ LET o == TextCase(text, AgentName, message_history)
       IN /\ message_history' = o.history
          /\ last' = [Outcome("Text", FALSE, o, << >>) EXCEPT !.inbound = TextMessage(text)]
          /\ sent' = Deliver(o)
    /\ provider_calls' = << >>
    /\ provider_outputs' = << >>
    /\ UNCHANGED <<heap, count_ticks, query_interval, model_name, agent_pc, gen, input_values>>

HandleAgentAction(message) ==
    /\ RuntimeDelivers
    /\ events < MaxEvents
    /\ events' = events + 1
    /\ LET o == AgentActionCase(message, AgentName, message_history)
       IN /\ message_history' = o.history
          /\ last' = [Outcome("AgentAction", FALSE, o, << >>) EXCEPT !.inbound = message]
          /\ sent' = Deliver(o)
    /\ provider_calls' = << >>
    /\ provider_outputs' = << >>
    /\ UNCHANGED <<heap, count_ticks, query_interval, model_name, agent_pc, gen, input_values>>

\* case Tick(): up to the return, the exception, or the await of the provider
HandleTick ==
    /\ RuntimeDelivers
    /\ events < MaxEvents
    /\ events' = events + 1
    /\ count_ticks' = count_ticks + 1
    /\ IF OnCadence(count_ticks', query_interval)
       THEN LET e == GenerateEntry("agent", model_name, DecisionPlaceholders,
                                   DecisionInputs(AgentName, Goal), StrOutputParser)
            IN /\ provider_calls' = e.calls
               /\ input_values' = e.values
               /\ gen' = e.frame
               /\ IF e.status = "raised"
                  THEN /\ agent_pc' = AfterAact("raised")
                       /\ last' = Outcome("Tick", TRUE, Raised(e.error, message_history), << >>)
                  ELSE /\ agent_pc' = "Deciding"
                       /\ last' = [Outcome("Tick", TRUE, ReturnedNone("", message_history), << >>)
                                      EXCEPT !.status = "pending"]
               /\ sent' = << >>
       ELSE LET o == Returned(NoneAction(AgentName), message_history)
            IN /\ last' = Outcome("Tick", FALSE, o, << >>)
               /\ sent' = Deliver(o)
               /\ provider_calls' = << >>
               /\ UNCHANGED <<agent_pc, gen, input_values>>
    /\ provider_outputs' = << >>
    /\ UNCHANGED <<heap, message_history, query_interval, model_name>>

\* the awaited provider invocation returns `text`; aact runs on to its end
ProviderReturns(text) ==
    /\ agent_pc = "Deciding"
    /\ LET r == GenerateResume(gen, provider_calls, text)
       IN /\ provider_calls' = r.calls
          /\ provider_outputs' = Append(provider_outputs, text)
          /\ gen' = r.frame
          /\ CASE r.status = "pending" ->
                    UNCHANGED <<agent_pc, message_history, last, sent>>
               [] r.status = "raised" ->
                    /\ agent_pc' = AfterAact("raised")
                    /\ last' = Outcome("Tick", TRUE, Raised(r.error, message_history), << >>)
                    /\ sent' = << >>
                    /\ UNCHANGED message_history
               [] r.status = "returned" ->
                    LET o == Decide(r.value, AgentName, message_history)
                    IN /\ agent_pc' = AfterAact(o.status)
                       /\ message_history' = o.history
                       /\ last' = Outcome("Tick", TRUE, o, Sanitize(r.value))
                       /\ sent' = Deliver(o)
    /\ UNCHANGED <<heap, count_ticks, query_interval, model_name, input_values, events>>

Next ==
    \/ \E text \in ObservationTexts : HandleText(text)
    \/ \E message \in PeerActions : HandleAgentAction(message)
    \/ HandleTick
    \/ \E text \in ProviderTexts : ProviderReturns(text)

Spec == Init /\ [][Next]_vars

\* the agent's event loop over shorter runs, in which every provider invocation
\* that is awaited returns in the end
MaxFairEvents == 2

NextFair ==
    \/ events < MaxFairEvents /\ \E text \in ObservationTexts : HandleText(text)
    \/ events < MaxFairEvents /\ \E message \in PeerActions : HandleAgentAction(message)
    \/ events < MaxFairEvents /\ HandleTick
    \/ \E text \in ProviderTexts : ProviderReturns(text)

FairSpec ==
    /\ Init
    /\ [][NextFair]_vars
    /\ WF_vars(\E text \in ProviderTexts : ProviderReturns(text))

-----------------------------------------------------------------------------
(* Direct callers of generate/agenerate *)

\* placeholder sets of the templates, and the input maps the callers build
GenTemplates == {{"text"}, {"text", "format_instructions"}, {"text", "topic"}, {}}
GenInputValues ==
    {[k \in keys |-> "v"] : keys \in {{"text"}, {"text", "format_instructions"}, {}}}

GenParsers ==
    {StrOutputParser,
     ListOfIntOutputParser(None, None),
     ListOfIntOutputParser(SomeInt(2), None),
     ListOfIntOutputParser(SomeInt(0), None),
     ListOfIntOutputParser(None, SomeRange(1, 4)),
     ListOfIntOutputParser(SomeInt(2), SomeRange(1, 4))}

GenTexts ==
    { << >>, <<IntTok(1)>>, <<IntTok(5)>>, <<IntTok(1), IntTok(4)>>, <<IntTok(0), IntTok(2)>>,
      <<WordTok>>, <<IntTok(1), WordTok>>, <<IntTok(1), IntTok(2), IntTok(3)>> }

InitGen ==
    /\ count_ticks = 0
    /\ message_history = << >>
    /\ query_interval = 1
    /\ model_name = "gpt-4"
    /\ agent_pc = "Idle"
    /\ gen = NoFrame
    /\ provider_calls = << >>
    /\ provider_outputs = << >>
    /\ input_values \in GenInputValues
    /\ last = Outcome("", FALSE, ReturnedNone("", << >>), << >>)
    /\ sent = << >>
    /\ events = 0
    /\ heap = NoHeap

\* a call of generate (fn = "generate") or agenerate (fn = "agenerate") with the
\* caller's map, up to the exception or the first provider invocation
CallGenerate(fn, name, input_variables, parser) ==
    /\ gen.pc = "idle"
    /\ events < MaxCalls
    /\ events' = events + 1
    /\ LET e == GenerateEntry(fn, name, input_variables, input_values, parser)
           call == [name |-> name, input_variables |-> input_variables,
                    keys |-> DOMAIN input_values, parser |-> parser,
                    values |-> input_values]
       IN /\ gen' = e.frame
          /\ provider_calls' = e.calls
          /\ input_values' = e.values
          /\ last' = [Outcome(fn, FALSE, ReturnedNone("", << >>), << >>)
                         EXCEPT !.status = e.status, !.error = e.error, !.call = call]
    /\ provider_outputs' = << >>
    /\ UNCHANGED <<heap, count_ticks, message_history, query_interval, model_name, agent_pc, sent>>

\* the provider invocation the call waits for returns `text`
GenProviderReturns(text) ==
    /\ gen.pc # "idle"
    /\ LET r == GenerateResume(gen, provider_calls, text)
       IN /\ gen' = r.frame
          /\ provider_calls' = r.calls
          /\ provider_outputs' = Append(provider_outputs, text)
          /\ last' = [last EXCEPT !.status = r.status, !.error = r.error, !.value = r.value]
    /\ UNCHANGED <<heap, count_ticks, message_history, query_interval, model_name, agent_pc,
                   input_values, sent, events>>

NextGen ==
    \/ \E fn \in {"generate", "agenerate"}, name \in LLM_Name,
          input_variables \in GenTemplates, parser \in GenParsers :
            CallGenerate(fn, name, input_variables, parser)
    \/ \E text \in GenTexts : GenProviderReturns(text)

SpecGen == InitGen /\ [][NextGen]_vars

-----------------------------------------------------------------------------
(* LLMAgent.send on its own: the node publishes any AgentAction handed to it *)

MaxSends == 2

Messages ==
    {AgentAction(n, k, a, p) :
        n \in {AgentName} \cup PeerNames, k \in ActionTypes,
        a \in {Chars(""), Chars("hi"), Chars("Nan")}, p \in {Chars(""), Chars("/a")}}

InitSend ==
    /\ count_ticks = 0
    /\ message_history = << >>
    /\ query_interval = 1
    /\ model_name = "gpt-4"
    /\ agent_pc = "Idle"
    /\ gen = NoFrame
    /\ provider_calls = << >>
    /\ provider_outputs = << >>
    /\ input_values = << >>
    /\ last = Outcome("", FALSE, ReturnedNone("", << >>), << >>)
    /\ sent = << >>
    /\ events = 0
    /\ heap = NoHeap

Send(message) ==
    /\ events < MaxSends
    /\ events' = events + 1
    /\ last' = Outcome("send", FALSE, Returned(message, << >>), << >>)
    /\ sent' = send(message)
    /\ UNCHANGED <<heap, count_ticks, message_history, query_interval, model_name, agent_pc, gen,
                   provider_calls, provider_outputs, input_values>>

NextSend == \E message \in Messages : Send(message)

SpecSend == InitSend /\ [][NextSend]_vars

-----------------------------------------------------------------------------
(* Several LLMAgent instances in one process, each handed its own events *)

MaxAgentEvents == 3

InstanceNames == {"Ava", "Bob"}
InstanceIntervals == 1..2

\* a variant of __init__ in which the history is one list of the class
message_history_of_class(agent_name) == "LLMAgent.message_history"

\* `self.message_history = []` (line 58): a new list object for each instance
message_history_object(agent_name) == <<agent_name, "message_history">>

\* LLMAgent.__init__ (lines 55-61): the attributes of the new instance
LLMAgent_init(interval, agent_name, goal, name) ==
    [query_interval |-> interval, count_ticks |-> 0,
     message_history |-> message_history_object(agent_name),
     name |-> agent_name, model_name |-> name, goal |-> goal]

\* the call of aact an instance is in: nothing, or suspended in agenerate
NoTask == [pc |-> "Idle", gen |-> NoFrame, calls |-> << >>, outputs |-> << >>]

\* what the providers return to the instances
InstanceTexts ==
    { <<DocPiece(Obj("speak", ArgMap([k \in {"content"} |-> Chars("hi")])))>>,
      <<DocPiece(Obj("none", ArgMap(<< >>)))>>,
      <<DocPiece(Obj("write", ArgMap([k \in {"path"} |-> Chars("/a")])))>>,
      <<Piece("word")>> }

\* the messages of the others that reach the instance `a`
InstancePeerActions(a) ==
    {AgentAction(p, k, Chars("hi"), Chars("")) :
        p \in InstanceNames \ {a}, k \in {"speak", "thought"}}

InitAgents ==
    /\ count_ticks = 0
    /\ message_history = << >>
    /\ query_interval = 1
    /\ model_name = "gpt-4"
    /\ agent_pc = "Idle"
    /\ gen = NoFrame
    /\ provider_calls = << >>
    /\ provider_outputs = << >>
    /\ input_values = << >>
    /\ last = Outcome("", FALSE, ReturnedNone("", << >>), << >>)
    /\ sent = << >>
    /\ events = 0
    /\ \E intervals \in [InstanceNames -> InstanceIntervals] :
           LET agents == [a \in InstanceNames |->
                             LLMAgent_init(intervals[a], a, Goal, "gpt-4")]
           IN heap = [agents |-> agents,
                      lists |-> [l \in {agents[a].message_history : a \in InstanceNames}
                                    |-> << >>],
                      tasks |-> [a \in InstanceNames |-> NoTask]]

\* the list the instance `a` refers to as self.message_history
HistoryOf(h, a) == h.lists[h.agents[a].message_history]

\* the heap after aact of `a` has ended with the outcome `o`
AfterCase(a, o, task) ==
    [heap EXCEPT !.lists[heap.agents[a].message_history] = o.history,
                 !.tasks[a] = task]

\* aact of the instance `a` on Text(text)
AgentHandleText(a, text) ==
    /\ heap.tasks[a].pc = "Idle"
    /\ events < MaxAgentEvents
    /\ events' = events + 1
    /\ LET o == TextCase(text, heap.agents[a].name, HistoryOf(heap, a))
       IN /\ heap' = AfterCase(a, o, NoTask)
          /\ last' = [Outcome("Text", FALSE, o, << >>)
                         EXCEPT !.inbound = TextMessage(text), !.agent = a]
          /\ sent' = Deliver(o)
    /\ UNCHANGED <<count_ticks, message_history, query_interval, model_name, agent_pc, gen,
                   provider_calls, provider_outputs, input_values>>

\* aact of the instance `a` on an AgentAction of another
AgentHandleAgentAction(a, message) ==
    /\ heap.tasks[a].pc = "Idle"
    /\ events < MaxAgentEvents
    /\ events' = events + 1
    /\ LET o == AgentActionCase(message, heap.agents[a].name, HistoryOf(heap, a))
       IN /\ heap' = AfterCase(a, o, NoTask)
          /\ last' = [Outcome("AgentAction", FALSE, o, << >>)
                         EXCEPT !.inbound = message, !.agent = a]
          /\ sent' = Deliver(o)
    /\ UNCHANGED <<count_ticks, message_history, query_interval, model_name, agent_pc, gen,
                   provider_calls, provider_outputs, input_values>>

\* aact of the instance `a` on Tick(), up to the return, the exception or the await
AgentHandleTick(a) ==
    /\ heap.tasks[a].pc = "Idle"
    /\ events < MaxAgentEvents
    /\ events' = events + 1
    /\ LET self == heap.agents[a]
           ticks == self.count_ticks + 1
           counted == [heap EXCEPT !.agents[a].count_ticks = ticks]
       IN IF OnCadence(ticks, self.query_interval)
          THEN LET e == GenerateEntry("agent", self.model_name, DecisionPlaceholders,
                                      DecisionInputs(self.name, self.goal), StrOutputParser)
               IN /\ heap' = [counted EXCEPT !.tasks[a] =
                                 IF e.status = "raised" THEN NoTask
                                 ELSE [pc |-> "Deciding", gen |-> e.frame,
                                       calls |-> e.calls, outputs |-> << >>]]
                  /\ last' = [Outcome("Tick", TRUE,
                                      IF e.status = "raised"
                                      THEN Raised(e.error, HistoryOf(heap, a))
                                      ELSE ReturnedNone("", HistoryOf(heap, a)), << >>)
                                 EXCEPT !.agent = a]
                  /\ sent' = << >>
          ELSE LET o == Returned(NoneAction(self.name), HistoryOf(heap, a))
               IN /\ heap' = counted
                  /\ last' = [Outcome("Tick", FALSE, o, << >>) EXCEPT !.agent = a]
                  /\ sent' = Deliver(o)
    /\ UNCHANGED <<count_ticks, message_history, query_interval, model_name, agent_pc, gen,
                   provider_calls, provider_outputs, input_values>>

\* the provider invocation the instance `a` awaits returns `text`
AgentProviderReturns(a, text) ==
    /\ heap.tasks[a].pc = "Deciding"
    /\ LET task == heap.tasks[a]
           r == GenerateResume(task.gen, task.calls, text)
       IN CASE r.status = "pending" ->
                 /\ heap' = [heap EXCEPT !.tasks[a] =
                                [pc |-> "Deciding", gen |-> r.frame, calls |-> r.calls,
                                 outputs |-> Append(task.outputs, text)]]
                 /\ UNCHANGED <<last, sent>>
            [] r.status = "raised" ->
                 /\ heap' = [heap EXCEPT !.tasks[a] = NoTask]
                 /\ last' = [Outcome("Tick", TRUE, Raised(r.error, HistoryOf(heap, a)), << >>)
                                EXCEPT !.agent = a]
                 /\ sent' = << >>
            [] r.status = "returned" ->
                 LET o == Decide(r.value, heap.agents[a].name, HistoryOf(heap, a))
                 IN /\ heap' = AfterCase(a, o, NoTask)
                    /\ last' = [Outcome("Tick", TRUE, o, Sanitize(r.value))
                                   EXCEPT !.agent = a]
                    /\ sent' = Deliver(o)
    /\ UNCHANGED <<count_ticks, message_history, query_interval, model_name, agent_pc, gen,
                   provider_calls, provider_outputs, input_values, events>>

NextAgents ==
    \/ \E a \in InstanceNames, text \in ObservationTexts : AgentHandleText(a, text)
    \/ \E a \in InstanceNames : \E message \in InstancePeerActions(a) :
           AgentHandleAgentAction(a, message)
    \/ \E a \in InstanceNames : AgentHandleTick(a)
    \/ \E a \in InstanceNames, text \in InstanceTexts : AgentProviderReturns(a, text)

SpecAgents == InitAgents /\ [][NextAgents]_vars

-----------------------------------------------------------------------------
(* generate_action, generate_action_speak and agenerate_action *)

MaxActCalls == 2

ActionGenerators == {"generate_action", "generate_action_speak", "agenerate_action"}

\* the placeholders of the two templates and the keys of the dict built for them
ActionPlaceholders(fn) ==
    IF fn = "generate_action_speak"
    THEN {"agent", "history", "turn_number", "goal"}
    ELSE {"agent", "history", "turn_number", "action_list", "format_instructions"}
ActionInputs(fn) ==
    IF fn = "generate_action_speak"
    THEN [k \in {"agent", "turn_number", "history", "goal"} |-> "v"]
    ELSE [k \in {"agent", "turn_number", "history", "action_list"} |-> "v"]
ActionParser(fn) ==
    IF fn = "generate_action_speak" THEN StrOutputParser ELSE PydanticOutputParser
ActionPipeline(fn) == IF fn = "agenerate_action" THEN "agenerate" ELSE "generate"

\* what the provider returns to these callers, and the exceptions its invocation
\* can end with instead
ActTexts ==
    { <<ActionJSON("speak", Chars("hi"))>>,
      <<ActionJSON("none", Chars(""))>>,
      <<Piece("word")>>,
      <<Piece("said"), Piece("ws"), Piece("quote"), Piece("word"), Piece("quote"),
        Piece("ws")>> }
ProviderErrors == {"ProviderError", "KeyboardInterrupt"}
RaisedBy(error) == <<[t |-> "raise", d |-> NoDoc, error |-> error]>>

\* generate_action_speak after generate has returned (lines 441-444): the prefix
\* and the turn label are cut out, the ends trimmed, the quotes removed
Utterance(text) ==
    SelectSeq(Strip(SelectSeq(text, LAMBDA p : p.t \notin {"said", "turn"}), {"ws"}),
              LAMBDA p : p.t # "quote")

\* a variant of the except clauses that only takes the parser's exception
ActionExceptParserOnly(fn, error, hist) ==
    IF error = "OutputParserException"
    THEN Returned(AgentAction("", "none", Chars(""), Chars("")), hist)
    ELSE Raised(error, hist)

\* the except clauses (lines 401-404, 446-449, 484-485): generate_action and
\* generate_action_speak pass a KeyboardInterrupt on, the bare except of
\* agenerate_action takes it too
ActionExcept(fn, error, hist) ==
    IF error = "KeyboardInterrupt" /\ fn # "agenerate_action"
    THEN Raised(error, hist)
    ELSE Returned(AgentAction("", "none", Chars(""), Chars("")), hist)

\* the return of the try body
ActionReturn(fn, value, hist) ==
    IF fn = "generate_action_speak"
    THEN Returned(AgentAction("", "speak", Utterance(value), Chars("")), hist)
    ELSE Returned(value, hist)

InitAct ==
    /\ count_ticks = 0
    /\ message_history = << >>
    /\ query_interval = 1
    /\ model_name = "gpt-4"
    /\ agent_pc = "Idle"
    /\ gen = NoFrame
    /\ provider_calls = << >>
    /\ provider_outputs = << >>
    /\ input_values = << >>
    /\ last = Outcome("", FALSE, ReturnedNone("", << >>), << >>)
    /\ sent = << >>
    /\ events = 0
    /\ heap = NoHeap

\* a call of one of the three functions, up to its return or the first provider
\* invocation
CallAction(fn, name) ==
    /\ gen.pc = "idle"
    /\ events < MaxActCalls
    /\ events' = events + 1
    /\ LET e == GenerateEntry(ActionPipeline(fn), name, ActionPlaceholders(fn),
                              ActionInputs(fn), ActionParser(fn))
           call == [name |-> name, input_variables |-> ActionPlaceholders(fn),
                    keys |-> DOMAIN ActionInputs(fn), parser |-> ActionParser(fn),
                    values |-> ActionInputs(fn)]
           o == IF e.status = "raised" THEN ActionExcept(fn, e.error, << >>)
                ELSE [ReturnedNone("", << >>) EXCEPT !.status = "pending"]
       IN /\ gen' = e.frame
          /\ provider_calls' = e.calls
          /\ input_values' = e.values
          /\ last' = [Outcome(fn, FALSE, o, << >>) EXCEPT !.call = call]
    /\ provider_outputs' = << >>
    /\ UNCHANGED <<heap, count_ticks, message_history, query_interval, model_name, agent_pc,
                   sent>>

\* the provider invocation the call waits for returns `text`
ActProviderReturns(text) ==
    /\ gen.pc # "idle"
    /\ LET r == GenerateResume(gen, provider_calls, text)
           o == CASE r.status = "pending" -> [ReturnedNone("", << >>) EXCEPT !.status = "pending"]
                  [] r.status = "raised" -> ActionExcept(last.event, r.error, << >>)
                  [] r.status = "returned" -> ActionReturn(last.event, r.value, << >>)
       IN /\ gen' = r.frame
          /\ provider_calls' = r.calls
          /\ provider_outputs' = Append(provider_outputs, text)
          /\ last' = [last EXCEPT !.status = o.status, !.error = o.error,
                                  !.action = o.action]
    /\ UNCHANGED <<heap, count_ticks, message_history, query_interval, model_name, agent_pc,
                   input_values, sent, events>>

\* the provider invocation the call waits for ends with an exception, which
\* generate/agenerate let through (lines 234, 276, 244 and 284 are outside any try
\* that would take it)
ActProviderRaises(error) ==
    /\ gen.pc # "idle"
    /\ LET o == ActionExcept(last.event, error, << >>)
       IN /\ gen' = NoFrame
          /\ provider_outputs' = Append(provider_outputs, RaisedBy(error))
          /\ last' = [last EXCEPT !.status = o.status, !.error = o.error,
                                  !.action = o.action]
    /\ UNCHANGED <<heap, count_ticks, message_history, query_interval, model_name, agent_pc,
                   provider_calls, input_values, sent, events>>

NextAct ==
    \/ \E fn \in ActionGenerators, name \in LLM_Name : CallAction(fn, name)
    \/ \E text \in ActTexts : ActProviderReturns(text)
    \/ \E error \in ProviderErrors : ActProviderRaises(error)

SpecAct == InitAct /\ [][NextAct]_vars

-----------------------------------------------------------------------------
(* ScriptPydanticOutputParser.parse *)

MaxScriptLen == 3

\* the characters of the texts handed to the parser: the comma, white space (\s),
\* the two closing characters of the pattern, and any other character
ScriptChars == {",", " ", ")", "]", "a"}
WhiteSpace == {" "}
Closers == {")", "]"}

RECURSIVE ScriptTextsOfLen(_)
ScriptTextsOfLen(n) ==
    IF n = 0 THEN {<< >>}
    ELSE {Append(t, c) : t \in ScriptTextsOfLen(n - 1), c \in ScriptChars}
ScriptTexts == UNION {ScriptTextsOfLen(n) : n \in 0..MaxScriptLen}

\* \s* from position i: the position behind the longest run of white space
RECURSIVE SkipSpace(_, _)
SkipSpace(text, i) ==
    IF i <= Len(text) /\ text[i] \in WhiteSpace THEN SkipSpace(text, i + 1) ELSE i

\* the pattern ,\s*(\)|\]) tried at position i: the position of the closing
\* character the match ends with, 0 when there is no match at i
MatchEnd(text, i) ==
    LET j == SkipSpace(text, i + 1)
    IN IF text[i] = "," /\ j <= Len(text) /\ text[j] \in Closers THEN j ELSE 0

\* re.sub(r",\s*(\)|\])", r"\1", text) from position i on (line 70): the matches
\* are found from left to right without overlap, each is replaced by its group 1
RECURSIVE re_sub(_, _)
re_sub(text, i) ==
    IF i > Len(text) THEN << >>
    ELSE LET j == MatchEnd(text, i)
         IN IF j > 0 THEN <<text[j]>> \o re_sub(text, j + 1)
            ELSE <<text[i]>> \o re_sub(text, i + 1)

\* the pre-processing of parse (lines 69-70)
StripTrailingCommas(text) == re_sub(text, 1)

\* super().parse(text): PydanticOutputParser.parse looks for a JSON object in the
\* text; a text without a brace holds none, which is every text of ScriptTexts
ScriptValidates(text) == \E i \in 1..Len(text) : text[i] = "{"

\* ScriptPydanticOutputParser.parse(text) (lines 68-71)
ScriptPydanticOutputParser_parse(text) ==
    LET stripped == StripTrailingCommas(text)
    IN [handed |-> stripped,
        o |-> IF ScriptValidates(stripped) THEN Returned(NoAction, << >>)
              ELSE Raised("OutputParserException", << >>)]

InitScript ==
    /\ count_ticks = 0
    /\ message_history = << >>
    /\ query_interval = 1
    /\ model_name = "gpt-4"
    /\ agent_pc = "Idle"
    /\ gen = NoFrame
    /\ provider_calls = << >>
    /\ provider_outputs \in {<<text>> : text \in ScriptTexts}
    /\ input_values = << >>
    /\ last = Outcome("", FALSE, ReturnedNone("", << >>), << >>)
    /\ sent = << >>
    /\ events = 0
    /\ heap = NoHeap

\* the parser is applied to the text the provider returned
ScriptParse ==
    /\ events = 0
    /\ events' = 1
    /\ LET r == ScriptPydanticOutputParser_parse(provider_outputs[1])
       IN last' = [Outcome("ScriptPydanticOutputParser.parse", FALSE, r.o, << >>)
                       EXCEPT !.value = r.handed]
    /\ UNCHANGED <<heap, count_ticks, message_history, query_interval, model_name, agent_pc,
                   gen, provider_calls, provider_outputs, input_values, sent>>

NextScript == ScriptParse

SpecScript == InitScript /\ [][NextScript]_vars

-----------------------------------------------------------------------------
(* Properties *)

\* the last call of generate/agenerate got past the template assert and obtain_chain
CallAdmitted ==
    /\ last.event \in {"generate", "agenerate"}
    /\ TemplateMatches(last.call.input_variables, last.call.keys)
    /\ obtain_chain(last.call.name)

\* C1: an admitted call of generate/agenerate invokes the provider once when the
\* first parse succeeds and twice (the call and one reformat) when it fails, never
\* a third time; when the parse of the reformatted output fails too, the
\* parser's exception reaches the caller.
C1_RecoveryBound ==
    /\ Len(provider_calls) <= 2
    /\ (CallAdmitted /\ last.status = "pending") =>
           Len(provider_calls) = Len(provider_outputs) + 1
    /\ (CallAdmitted /\ last.status # "pending") =>
           LET parser == last.call.parser
           IN /\ Len(provider_outputs) = Len(provider_calls)
              /\ ParseOK(parser, provider_outputs[1]) =>
                     Len(provider_calls) = 1 /\ last.status = "returned"
              /\ ~ParseOK(parser, provider_outputs[1]) =>
                     /\ Len(provider_calls) = 2
                     /\ ParseOK(parser, provider_outputs[2]) => last.status = "returned"
                     /\ ~ParseOK(parser, provider_outputs[2]) =>
                            last.status = "raised" /\ last.error = "OutputParserException"

C1_Witness ==
    /\ CallAdmitted
    /\ last.event = "agenerate"
    /\ last.status = "raised"
    /\ last.error = "OutputParserException"
    /\ Len(provider_calls) = 2

\* C2: the value generate/agenerate returns is the parse of the first provider
\* output when that parse succeeds and the parse of the reformat call's output
\* otherwise; the reformat call's inputs are the first output and the parser's own
\* format instructions.
C2_ReturnedValue ==
    /\ (CallAdmitted /\ last.status = "returned") =>
           LET parser == last.call.parser
           IN IF ParseOK(parser, provider_outputs[1])
              THEN last.value = Parse(parser, provider_outputs[1])
              ELSE last.value = Parse(parser, provider_outputs[2])
    /\ (CallAdmitted /\ Len(provider_calls) = 2) =>
           /\ DOMAIN provider_calls[2].inputs = {"ill_formed_output", "format_instructions"}
           /\ provider_calls[2].inputs["ill_formed_output"] = provider_outputs[1]
           /\ provider_calls[2].inputs["format_instructions"]
                  = get_format_instructions(last.call.parser)

C2_Witness ==
    /\ CallAdmitted
    /\ last.status = "returned"
    /\ Len(provider_calls) = 2
    /\ last.value = <<1, 4>>

\* a step in which the agent takes a Tick from its queue
TickStep == events' = events + 1 /\ last'.event = "Tick"

\* C3: every Tick adds exactly one to count_ticks; the Tick that makes it k starts
\* a decision cycle iff k mod query_interval = 0 and otherwise returns a none action
\* without a provider invocation; no other step changes count_ticks.
C3_Step ==
    /\ TickStep =>
           /\ count_ticks' = count_ticks + 1
           /\ last'.cycle <=> (count_ticks' % query_interval = 0)
           /\ ~last'.cycle =>
                  /\ last'.status = "action"
                  /\ last'.action = AgentAction(AgentName, "none", << >>, << >>)
                  /\ provider_calls' = << >>
                  /\ agent_pc' = "Idle"
           /\ last'.cycle =>
                  \/ agent_pc' = "Deciding" /\ Len(provider_calls') = 1
                  \/ agent_pc' = "Idle" /\ last'.status = "raised"
    /\ ~TickStep => count_ticks' = count_ticks

C3_TickCadence == [][C3_Step]_vars

C3_Witness ==
    /\ query_interval = 3
    /\ count_ticks = 3
    /\ last.event = "Tick"
    /\ last.cycle
    /\ agent_pc = "Deciding"

\* a decision cycle that ran to its end after the provider returned
CycleDone ==
    /\ last.event = "Tick"
    /\ last.cycle
    /\ last.status # "pending"
    /\ Len(provider_outputs) >= 1

\* C4: every decision cycle hands back exactly one AgentAction, whatever text the
\* provider returned.
C4_OneActionPerCycle == CycleDone => last.status = "action"

\* the args each action value needs, and the action the table of the classifier gives
RequiredArgs(kind) ==
    CASE kind \in {"thought", "speak"} -> {"content"}
      [] kind = "browse" -> {"url"}
      [] kind \in {"browse_action", "run"} -> {"command"}
      [] kind = "write" -> {"path", "content"}
      [] kind = "read" -> {"path"}
      [] OTHER -> {}

HasRequired(data) ==
    \/ RequiredArgs(data.action) = {}
    \/ data.args.shape = "map" /\ \A k \in RequiredArgs(data.action) : data.args.f[k].has

TableAction(data) ==
    LET f == data.args.f
    IN CASE data.action \in {"thought", "speak"} ->
                AgentAction(AgentName, data.action, f["content"].v, << >>)
         [] data.action = "browse" -> AgentAction(AgentName, "browse", f["url"].v, << >>)
         [] data.action \in {"browse_action", "run"} ->
                AgentAction(AgentName, data.action, f["command"].v, << >>)
         [] data.action = "write" ->
                AgentAction(AgentName, "write", f["content"].v, f["path"].v)
         [] data.action = "read" -> AgentAction(AgentName, "read", <<"N", "a", "n">>, f["path"].v)
         [] data.action \in {"none", "leave"} -> AgentAction(AgentName, data.action, << >>, << >>)

\* the sanitized decision text is a JSON object with an `action` key
DecisionObject ==
    /\ CycleDone
    /\ LoadsOK(last.decision)
    /\ Loads(last.decision).j = "object"
    /\ Loads(last.decision).has_action

\* C5: a sanitized decision text that is a JSON object with one of the eight handled
\* action values and the args that value needs yields the AgentAction of the
\* classifier's table, in the agent's own name.
C5_ActionTable ==
    DecisionObject =>
        LET data == Loads(last.decision)
        IN (/\ data.action \in {"thought", "speak", "browse", "browse_action", "run",
                                "write", "read", "none"}
            /\ HasRequired(data))
           => last.status = "action" /\ last.action = TableAction(data)

C5_Witness ==
    /\ DecisionObject
    /\ last.action = AgentAction("Ava", "write", <<"h", "i">>, <<"/", "a">>)
    /\ message_history # << >>

\* C6: a sanitized decision text with action "leave" yields an AgentAction of kind
\* leave with empty argument and path.
C6_LeaveRecognized ==
    (DecisionObject /\ Loads(last.decision).action = "leave") =>
        last.status = "action" /\ last.action = AgentAction(AgentName, "leave", << >>, << >>)

\* C7: send publishes a message at most once: on the output channel iff it is a
\* speak, on "Agent:Runtime" iff it is a browse, browse_action, write, read or run,
\* and not at all otherwise.
C7_Routing ==
    last.event = "send" =>
        LET message == last.action
            on(channel) == \E i \in 1..Len(sent) : sent[i].channel = channel
        IN /\ Len(sent) <= 1
           /\ \A i \in 1..Len(sent) : sent[i].data = message
           /\ on("Ava:out") <=> message.action_type = "speak"
           /\ on("Agent:Runtime") <=>
                  message.action_type \in {"browse", "browse_action", "write", "read", "run"}
           /\ message.action_type \in {"none", "thought", "leave"} => sent = << >>

C7_Witness ==
    /\ last.event = "send"
    /\ last.action.action_type = "read"
    /\ Len(sent) = 1
    /\ sent[1].channel = "Agent:Runtime"

\* a step in which the awaited provider call returns and the decision cycle ends
CycleEnds == agent_pc = "Deciding" /\ agent_pc' = "Idle"

\* C8: when the sanitized decision text is not valid JSON the cycle ends without an
\* exception, with no action, nothing published and the history as it was, and the
\* agent is Idle again.
C8_Step ==
    (CycleEnds /\ ~LoadsOK(last'.decision) /\ Len(provider_outputs') = 1) =>
        /\ last'.status = "no_action"
        /\ last'.error = ""
        /\ last'.logged = "Error decoding JSON"
        /\ sent' = << >>
        /\ message_history' = message_history
        /\ agent_pc' = "Idle"

C8_DecodeFailure == [][C8_Step]_vars

C8_Witness ==
    /\ CycleDone
    /\ ~LoadsOK(last.decision)
    /\ last.decision # << >>
    /\ last.status = "no_action"
    /\ message_history # << >>

\* C9: a sanitized decision text that is valid JSON without a top-level `action`
\* (no such key, or no JSON object) is treated like invalid JSON: logged, no action,
\* no exception leaving the cycle.
C9_MissingActionLogged ==
    (/\ CycleDone
     /\ LoadsOK(last.decision)
     /\ (Loads(last.decision).j # "object" \/ ~Loads(last.decision).has_action))
    => last.status = "no_action" /\ last.logged # ""

\* C10: a handled action value whose args (or one of the args it needs) is missing
\* makes the cycle fail with an exception, with no action and the history as it was.
C10_Step ==
    (/\ CycleEnds
     /\ LoadsOK(last'.decision)
     /\ Loads(last'.decision).j = "object"
     /\ Loads(last'.decision).has_action
     /\ RequiredArgs(Loads(last'.decision).action) # {}
     /\ ~HasRequired(Loads(last'.decision)))
    => /\ last'.status = "raised"
       /\ last'.error = (IF Loads(last'.decision).args.shape = "scalar"
                         THEN "TypeError" ELSE "KeyError")
       /\ last'.action = NoAction
       /\ sent' = << >>
       /\ message_history' = message_history

C10_MissingArgument == [][C10_Step]_vars

C10_Witness ==
    /\ DecisionObject
    /\ Loads(last.decision).action = "write"
    /\ Loads(last.decision).args.f["path"].has
    /\ ~Loads(last.decision).args.f["content"].has
    /\ last.status = "raised"
    /\ message_history # << >>

\* a step in which a decision cycle ends in an exception: at the Tick itself, or
\* when the awaited provider call has returned
CycleFails ==
    /\ last'.status = "raised"
    /\ events' = events + 1 \/ agent_pc = "Deciding"

\* a step in which the agent takes an event from its queue
TextStep == events' = events + 1 /\ last'.event = "Text"
PeerStep == events' = events + 1 /\ last'.event = "AgentAction"

\* C11: a decision cycle that ends in an exception leaves the agent Idle with no
\* generation call outstanding, nothing published and its history, query_interval
\* and model as they were, count_ticks differing only by the Tick's increment; the
\* event after it is processed as any other: a Text or a peer's speak is appended,
\* a Tick adds one to count_ticks and obeys the cadence test.
C11_Step ==
    /\ CycleFails =>
           /\ agent_pc' = "Idle"
           /\ gen' = NoFrame
           /\ sent' = << >>
           /\ message_history' = message_history
           /\ query_interval' = query_interval
           /\ model_name' = model_name
           /\ count_ticks' = (IF agent_pc = "Deciding" THEN count_ticks ELSE count_ticks + 1)
    /\ last.status = "raised" =>
           /\ TextStep =>
                  /\ message_history' = Append(message_history,
                                               <<AgentName, "observation data",
                                                 last'.inbound.argument>>)
                  /\ count_ticks' = count_ticks
                  /\ last'.status = "action"
           /\ PeerStep =>
                  /\ message_history' =
                         (IF last'.inbound.action_type = "speak"
                          THEN Append(message_history,
                                      <<last'.inbound.agent_name, "speak",
                                        last'.inbound.argument>>)
                          ELSE message_history)
                  /\ count_ticks' = count_ticks
                  /\ last'.status = "action"
           /\ TickStep =>
                  /\ count_ticks' = count_ticks + 1
                  /\ last'.cycle <=> (count_ticks' % query_interval = 0)
                  /\ ~last'.cycle => last'.status = "action"

C11_AfterFailure == [][C11_Step]_vars

C11_Witness ==
    /\ model_name = "human"
    /\ query_interval = 1
    /\ count_ticks = 1
    /\ events = 2
    /\ last.event = "Text"
    /\ last.status = "action"
    /\ message_history = <<<<AgentName, "observation data", Chars("hi")>>>>

\* the provider invocations issued and not yet returned
Outstanding == Len(provider_calls) - Len(provider_outputs)

\* C12: at most one provider invocation is outstanding at any time, and while a
\* decision cycle is suspended in one no event is taken from the queue: count_ticks
\* stays, the history stays until the cycle itself ends, and no invocation is issued
\* on top of the outstanding one.
C12_Step ==
    /\ Outstanding <= 1
    /\ Outstanding' <= 1
    /\ (agent_pc = "Deciding") <=> (Outstanding = 1)
    /\ agent_pc = "Deciding" =>
           /\ events' = events
           /\ count_ticks' = count_ticks
           /\ Len(provider_outputs') = Len(provider_outputs) + 1
           /\ agent_pc' = "Deciding" => message_history' = message_history

C12_OneOutstandingCall == [][C12_Step]_vars

C12_Witness ==
    /\ agent_pc = "Deciding"
    /\ Outstanding = 1
    /\ events = 2
    /\ events < MaxEvents
    /\ message_history # << >>

IsPrefix(earlier, later) ==
    Len(earlier) <= Len(later) /\ SubSeq(later, 1, Len(earlier)) = earlier

\* C13: every step leaves the history it found as a prefix of the history it
\* leaves (so the history of any earlier state is a prefix of that of any later
\* one), adds at most one entry, and the entry it adds, at the end, is the one of
\* the event the step processed.
C13_Step ==
    /\ IsPrefix(message_history, message_history')
    /\ Len(message_history') <= Len(message_history) + 1
    /\ message_history' # message_history =>
           LET entry == message_history'[Len(message_history')]
           IN /\ TextStep => entry = <<AgentName, "observation data", last'.inbound.argument>>
              /\ PeerStep => entry = <<last'.inbound.agent_name, last'.inbound.action_type,
                                       last'.inbound.argument>>
              /\ ~(TextStep \/ PeerStep) =>
                     /\ CycleEnds
                     /\ entry[1] = AgentName
                     /\ entry[2] = last'.action.action_type

C13_AppendOnly == [][C13_Step]_vars

C13_Witness ==
    /\ Len(message_history) = 3
    /\ message_history[1] = <<AgentName, "observation data", Chars("hi")>>
    /\ message_history[2] = <<"Bob", "speak", Chars("hi")>>
    /\ message_history[3][1] = AgentName
    /\ message_history[3][2] = "speak"
    /\ last.event = "Tick"

\* C14: the step that processes Text(t) appends the one entry
\* (own name, "observation data", t) to the history, returns a none action with
\* empty argument and path, leaves count_ticks as it was and invokes no provider.
C14_Step ==
    TextStep =>
        /\ last'.inbound.argument \in ObservationTexts
        /\ message_history' = Append(message_history,
                                     <<AgentName, "observation data", last'.inbound.argument>>)
        /\ last'.status = "action"
        /\ last'.action = AgentAction(AgentName, "none", << >>, << >>)
        /\ count_ticks' = count_ticks
        /\ provider_calls' = << >>
        /\ agent_pc' = "Idle"

C14_Observation == [][C14_Step]_vars

C14_Witness ==
    /\ last.event = "Text"
    /\ last.inbound.argument = Chars("hi")
    /\ Len(message_history) = 2
    /\ message_history[2] = <<AgentName, "observation data", Chars("hi")>>
    /\ message_history[1][1] = "Bob"
    /\ count_ticks = 0

\* C15: the step that processes an AgentAction of a peer appends
\* (peer name, "speak", argument) iff its action_type is speak and leaves the
\* history alone otherwise; either way it returns a none action in the agent's own
\* name, leaves count_ticks as it was and invokes no provider.
C15_Step ==
    PeerStep =>
        LET message == last'.inbound
        IN /\ message \in PeerActions
           /\ message.action_type = "speak" =>
                  message_history' = Append(message_history,
                                            <<message.agent_name, "speak", message.argument>>)
           /\ message.action_type # "speak" => message_history' = message_history
           /\ last'.status = "action"
           /\ last'.action = AgentAction(AgentName, "none", << >>, << >>)
           /\ count_ticks' = count_ticks
           /\ provider_calls' = << >>
           /\ agent_pc' = "Idle"

C15_PeerAction == [][C15_Step]_vars

C15_Witness ==
    /\ last.event = "AgentAction"
    /\ last.inbound.action_type = "thought"
    /\ last.inbound.agent_name = "Bob"
    /\ message_history = <<<<"Bob", "speak", Chars("hi")>>>>
    /\ events = 2

\* the last step was a call of generate/agenerate or a return of its provider
GenerateCalled == last.event \in {"generate", "agenerate"}

\* C16: a call of generate/agenerate with a template of placeholder names T and
\* an input map of keys K gets past the template assert iff T = K or
\* T = K + {"format_instructions"}.
C16_TemplateValidation ==
    GenerateCalled =>
        LET T == last.call.input_variables
            K == last.call.keys
        IN (last.error # "AssertionError")
               <=> (T = K \/ T = K \cup {"format_instructions"})

C16_Witness ==
    /\ GenerateCalled
    /\ last.error = "AssertionError"
    /\ last.call.input_variables = {"text"}
    /\ last.call.keys = {"text", "format_instructions"}

\* C17: a call whose template assert fails ends at once with the AssertionError:
\* no provider has been invoked, no reformat is asked for, and the call is not
\* waiting for anything that could make it run again.
C17_ValidationFirst ==
    (GenerateCalled /\ ~TemplateMatches(last.call.input_variables, last.call.keys)) =>
        /\ last.status = "raised"
        /\ last.error = "AssertionError"
        /\ provider_calls = << >>
        /\ provider_outputs = << >>
        /\ gen = NoFrame

C17_Witness ==
    /\ last.event = "generate"
    /\ last.error = "AssertionError"
    /\ last.call.name = "gpt-4"
    /\ last.call.input_variables = {"text", "topic"}
    /\ events = 2
    /\ provider_calls = << >>

\* C18: a call that names a model obtain_chain has no case for ("human" among the
\* LLM_Name values) ends with an exception before any provider is invoked, is not
\* waiting for anything, and no other model is invoked in its place; once the
\* template assert has passed the exception is obtain_chain's ValueError.
C18_UnsupportedProvider ==
    (GenerateCalled /\ last.call.name \notin {"gpt-3.5-turbo", "gpt-4", "text-davinci-003"}) =>
        /\ last.status = "raised"
        /\ provider_calls = << >>
        /\ provider_outputs = << >>
        /\ gen = NoFrame
        /\ (last.call.input_variables = last.call.keys
            \/ last.call.input_variables = last.call.keys \cup {"format_instructions"})
           => last.error = "ValueError"

C18_Witness ==
    /\ last.event = "agenerate"
    /\ last.call.name = "human"
    /\ last.call.input_variables = {"text", "format_instructions"}
    /\ last.status = "raised"
    /\ last.error = "ValueError"
    /\ provider_calls = << >>

\* the provider's raw output is a JSON object {"action": ..., "args": {...}}
ContractOutput(text) ==
    /\ LoadsOK(text)
    /\ Loads(text).j = "object"
    /\ Loads(text).has_action
    /\ Loads(text).args.shape = "map"

\* C19 as claimed: a decision cycle whose provider output is not such an object
\* has asked the provider for a reformat before it ends.
C19_RecoveryInCycle ==
    (CycleDone /\ ~ContractOutput(provider_outputs[1])) =>
        /\ Len(provider_calls) >= 2
        /\ provider_calls[2].template = "reformat"

\* C19: a decision cycle never asks for a reformat: StrOutputParser accepts every
\* provider output, so the cycle invokes the provider at most once and the output,
\* whatever it is, goes to sanitization and json.loads as it came; one that does
\* not decode ends the cycle in the logged decode failure.
C19_NoRecoveryInCycle ==
    /\ Len(provider_calls) <= 1
    /\ \A i \in 1..Len(provider_calls) : provider_calls[i].template # "reformat"
    /\ gen.pc # "reformat"
    /\ CycleDone =>
           /\ Len(provider_outputs) = 1
           /\ last.decision = Sanitize(provider_outputs[1])
           /\ ~LoadsOK(last.decision) =>
                  last.status = "no_action" /\ last.logged = "Error decoding JSON"

C19_Witness ==
    /\ CycleDone
    /\ ~ContractOutput(provider_outputs[1])
    /\ ~LoadsOK(Sanitize(provider_outputs[1]))
    /\ Len(provider_calls) = 1
    /\ last.logged = "Error decoding JSON"

\* C20: the reformat call of a generate/agenerate goes to the model the call
\* itself was made with.
C20_SameProvider ==
    (GenerateCalled /\ Len(provider_calls) = 2) =>
        /\ provider_calls[1].model_name = last.call.name
        /\ provider_calls[2].model_name = provider_calls[1].model_name

\* C21: ListOfIntOutputParser.parse fails when a number_of_int is configured
\* (whatever its value, 0 too) and the count of integers differs, when a
\* range_of_int is configured and a value is below lo or above hi, and when a token
\* is no integer; otherwise it returns the integers in input order.  Stated on the
\* first provider output of an admitted call: a parse failure shows as the pending
\* reformat call, a success as the returned value.
C21_ListOfIntParse ==
    (/\ CallAdmitted
     /\ last.call.parser.type = "list[int]"
     /\ Len(provider_outputs) = 1)
    => LET parser == last.call.parser
           output == provider_outputs[1]
           number == parser.number_of_int
           range == parser.range_of_int
           fails ==
               \/ \E i \in 1..Len(output) : output[i].t # "int"
               \/ number.some /\ Len(output) # number.v
               \/ /\ range.some
                  /\ \E i \in 1..Len(output) : output[i].n < range.lo \/ output[i].n > range.hi
       IN IF fails
          THEN last.status = "pending" /\ Len(provider_calls) = 2
          ELSE /\ last.status = "returned"
               /\ last.value = [i \in 1..Len(output) |-> output[i].n]

\* what the function `fn` does with a call and the provider's answers so far:
\* its invocations, and its result or exception
GenRun(fn, call, outputs) ==
    LET begin == IF fn = "generate"
                 THEN generate_begin(fn, call.name, call.input_variables, call.values,
                                     call.parser)
                 ELSE agenerate_begin(fn, call.name, call.input_variables, call.values,
                                      call.parser)
        resume(frame, calls, text) ==
            IF fn = "generate" THEN generate_resume(frame, calls, text)
            ELSE agenerate_resume(frame, calls, text)
        seen(r) == [status |-> r.status, error |-> r.error, value |-> r.value,
                    calls |-> r.calls]
    IN IF begin.status = "raised" \/ Len(outputs) = 0
       THEN [status |-> begin.status, error |-> begin.error, value |-> << >>,
             calls |-> begin.calls]
       ELSE LET first == resume(begin.frame, begin.calls, outputs[1])
            IN IF first.status # "pending" \/ Len(outputs) = 1 THEN seen(first)
               ELSE seen(resume(first.frame, first.calls, outputs[2]))

\* C22: for the model name, template, input map and parser of any call and the
\* provider answers it got, generate and agenerate make the same invocations and
\* end alike (same value, same exception, or both waiting on the same
\* invocation), and the call that ran did just that.
C22_BlockingEquivalence ==
    GenerateCalled =>
        LET blocking == GenRun("generate", last.call, provider_outputs)
            suspending == GenRun("agenerate", last.call, provider_outputs)
            ran == GenRun(last.event, last.call, provider_outputs)
        IN /\ blocking = suspending
           /\ provider_calls = ran.calls
           /\ last.status = ran.status
           /\ last.error = ran.error
           /\ last.value = ran.value

C22_Witness ==
    /\ last.event = "agenerate"
    /\ last.call.parser = ListOfIntOutputParser(SomeInt(2), SomeRange(1, 4))
    /\ provider_outputs = <<<<IntTok(5)>>, <<IntTok(1), IntTok(4)>>>>
    /\ last.status = "returned"
    /\ last.value = <<1, 4>>

\* what the instance `a` holds: its attributes, with the content of its history
InstanceState(a) ==
    [history |-> HistoryOf(heap, a),
     count_ticks |-> heap.agents[a].count_ticks,
     query_interval |-> heap.agents[a].query_interval,
     name |-> heap.agents[a].name,
     goal |-> heap.agents[a].goal]

\* C23: a step in which one instance handles an event, starts a decision cycle or
\* gets its provider's answer leaves the history, count_ticks, query_interval,
\* name and goal of every other instance as they were.
C23_Step ==
    \E a \in InstanceNames :
        /\ last'.agent = a
        /\ \A b \in InstanceNames \ {a} : InstanceState(b)' = InstanceState(b)

C23_Isolation == [][C23_Step]_vars

C23_Witness ==
    /\ heap.tasks["Ava"].pc = "Deciding"
    /\ HistoryOf(heap, "Bob") = <<<<"Bob", "speak", Chars("hi")>>>>
    /\ HistoryOf(heap, "Ava") = << >>
    /\ heap.agents["Bob"].count_ticks = 1
    /\ heap.agents["Ava"].count_ticks = 1
    /\ last.agent = "Bob"

\* the arg a handled action value is recorded with
RecordedArg(kind) ==
    CASE kind \in {"thought", "speak", "write"} -> "content"
      [] kind = "browse" -> "url"
      [] kind \in {"browse_action", "run"} -> "command"
      [] kind = "read" -> "path"

\* C24: a decision cycle that ends on a decision object with the args its action
\* needs appends the one entry (own name, action, c) for thought, speak, browse,
\* browse_action, run, write and read, c being the content, url, command or path of
\* the table above; it appends nothing for none and for an action value aact does
\* not handle, and the latter yields no action.
C24_Step ==
    (/\ CycleEnds
     /\ LoadsOK(last'.decision)
     /\ Loads(last'.decision).j = "object"
     /\ Loads(last'.decision).has_action
     /\ HasRequired(Loads(last'.decision)))
    => LET data == Loads(last'.decision)
           kind == data.action
       IN /\ kind \in {"thought", "speak", "browse", "browse_action", "run", "write", "read"} =>
                 /\ message_history' =
                        Append(message_history,
                               <<AgentName, kind, data.args.f[RecordedArg(kind)].v>>)
                 /\ last'.status = "action"
                 /\ last'.action.action_type = kind
          /\ kind = "none" =>
                 /\ message_history' = message_history
                 /\ last'.status = "action"
                 /\ last'.action.action_type = "none"
          /\ kind \notin {"thought", "speak", "browse", "browse_action", "run", "write",
                          "read", "none"} =>
                 /\ message_history' = message_history
                 /\ last'.status = "no_action"
                 /\ last'.action = NoAction
                 /\ sent' = << >>

C24_HistoryOfCycle == [][C24_Step]_vars

C24_Witness ==
    /\ DecisionObject
    /\ Loads(last.decision).action = "browse"
    /\ last.status = "action"
    /\ Len(message_history) = 2
    /\ message_history[2][2] = "browse"
    /\ message_history[2][3] = Loads(last.decision).args.f["url"].v

\* C25: after a call of generate/agenerate, returned, failed or still waiting, the
\* caller's input_values has the keys and values it had before the call.
C25_InputMapUnchanged ==
    GenerateCalled => input_values = last.call.values

\* a step that calls generate/agenerate again with the template of the call before,
\* which had passed the assert on that very dictionary
CalledAgain ==
    /\ GenerateCalled
    /\ last.error # "AssertionError"
    /\ events' = events + 1
    /\ last'.call.input_variables = last.call.input_variables

\* C26: a template that passed the assert with a dictionary passes it again when
\* the next call is made with the same template and the same dictionary.
C26_Step == CalledAgain => last'.error # "AssertionError"

C26_ValidationRepeatable == [][C26_Step]_vars

\* C27: when every awaited provider invocation returns, a decision cycle that has
\* begun ends, with the agent Idle again, after no more than two invocations; the
\* agent is always Idle or Deciding, and short of the model's bound on the events
\* there is always a step it can take.
C27_CycleTerminates ==
    /\ [](Len(provider_calls) <= 2)
    /\ [](agent_pc \in {"Idle", "Deciding"})
    /\ [](events < MaxFairEvents => ENABLED NextFair)
    /\ [](agent_pc = "Idle" /\ events < MaxFairEvents => ENABLED HandleTick)
    /\ (agent_pc = "Deciding") ~> (agent_pc = "Idle" /\ last.status # "pending")

C27_Witness ==
    /\ CycleDone
    /\ agent_pc = "Idle"
    /\ last.status = "raised"
    /\ last.error = "KeyError"
    /\ Len(provider_calls) = 1
    /\ events = 1
    /\ ENABLED HandleTick

Contains(s, sub) ==
    \E i \in 1..(Len(s) - Len(sub) + 1) : SubSeq(s, i, i + Len(sub) - 1) = sub

\* no value of the document holds a code fence or the token json
CleanDoc(d) ==
    \A k \in ArgKeys :
        ~Contains(d.args.f[k].v, Chars("'''")) /\ ~Contains(d.args.f[k].v, Chars("json"))

\* C28: for a decision object without a fence or `json` in its values, the cycle
\* returns the action and makes the history append that the object itself calls
\* for, whether the provider returned it bare, in a json code fence, in double
\* quotes or padded with whitespace.
C28_Step ==
    CycleEnds =>
        \A d \in WellFormedDocs :
            (CleanDoc(d) /\ provider_outputs'[1] \in Wrappings(d)) =>
                LET unwrapped == Classify(<<DocPiece(d)>>, AgentName, message_history)
                IN /\ last'.status = unwrapped.status
                   /\ last'.action = unwrapped.action
                   /\ message_history' = unwrapped.history
                   /\ last'.decision = <<DocPiece(d)>>

C28_WrappingTransparent == [][C28_Step]_vars

C28_Witness ==
    /\ CycleDone
    /\ provider_outputs[1] =
           <<Piece("quote"), DocPiece(Obj("speak", ArgMap(One("content", Chars("hi"))))),
             Piece("quote")>>
    /\ last.action = AgentAction(AgentName, "speak", Chars("hi"), << >>)
    /\ message_history = <<<<AgentName, "speak", Chars("hi")>>>>

\* C29: whatever the wrapping, the action's argument and path and the content
\* appended to the history are the args values of the object the provider
\* returned, character for character.
C29_PayloadPreserved ==
    CycleDone =>
        \A d \in WellFormedDocs :
            (/\ provider_outputs[1] \in Wrappings(d)
             /\ d.action \in {"thought", "speak", "browse", "browse_action", "run", "write",
                               "read"})
            => /\ last.status = "action"
               /\ last.action = TableAction(d)
               /\ message_history # << >>
               /\ message_history[Len(message_history)]
                      = <<AgentName, d.action, d.args.f[RecordedArg(d.action)].v>>

\* the exception the generate/agenerate call of the last action generator ended
\* with, "" when it returned
PipelineFailure ==
    LET n == Len(provider_outputs)
    IN IF n > 0 /\ provider_outputs[n][1].t = "raise" THEN provider_outputs[n][1].error
       ELSE LET run == GenRun(ActionPipeline(last.event), last.call, provider_outputs)
            IN IF run.status = "raised" THEN run.error ELSE ""

\* C30: when the generate/agenerate call of generate_action, agenerate_action or
\* generate_action_speak ends with an exception other than a KeyboardInterrupt, the
\* function returns an AgentAction of kind none with the empty argument and no
\* exception leaves it; when the call returns, generate_action_speak returns an
\* action of kind speak and the other two the parsed action.
C30_NoPropagation ==
    (last.event \in ActionGenerators /\ last.status # "pending") =>
        /\ PipelineFailure \notin {"", "KeyboardInterrupt"} =>
               /\ last.status = "action"
               /\ last.error = ""
               /\ last.action.action_type = "none"
               /\ last.action.argument = << >>
        /\ PipelineFailure = "" =>
               /\ last.status = "action"
               /\ last.event = "generate_action_speak" => last.action.action_type = "speak"
               /\ last.event # "generate_action_speak" =>
                      last.action = PydanticResult(provider_outputs[Len(provider_outputs)])

C30_Witness ==
    /\ last.event = "agenerate_action"
    /\ last.call.name = "gpt-4"
    /\ Len(provider_calls) = 2
    /\ Len(provider_outputs) = 2
    /\ PipelineFailure = "OutputParserException"
    /\ last.status = "action"
    /\ last.action.action_type = "none"

\* position i of the text holds a comma that is followed only by optional white
\* space and then a closing ) or ]
TrailingCommaAt(text, i) ==
    /\ text[i] = ","
    /\ \E j \in (i + 1)..Len(text) :
           /\ text[j] \in Closers
           /\ \A k \in (i + 1)..(j - 1) : text[k] \in WhiteSpace

\* the text without its trailing commas, every other character kept in order
RECURSIVE WithoutTrailingCommas(_, _)
WithoutTrailingCommas(text, i) ==
    IF i > Len(text) THEN << >>
    ELSE (IF TrailingCommaAt(text, i) THEN << >> ELSE <<text[i]>>)
             \o WithoutTrailingCommas(text, i + 1)

\* C31: on every input of ScriptPydanticOutputParser.parse, the text handed to
\* schema validation holds no comma followed only by optional white space and a
\* closing ) or ], pre-processing it a second time changes nothing, and it is the
\* input with the trailing commas taken out and every other character kept in order.
C31_PreprocessingPostcondition ==
    last.event = "ScriptPydanticOutputParser.parse" =>
        /\ \A i \in 1..Len(last.value) : ~TrailingCommaAt(last.value, i)
        /\ StripTrailingCommas(last.value) = last.value
        /\ last.value = WithoutTrailingCommas(provider_outputs[1], 1)

=============================================================================
